---------------------------- MODULE Spec2Model ----------------------------
(***************************************************************************)
(* A model of compressor.py (compress_tcl_selects): the parser, the two    *)
(* pattern-selection stages, the final safety check and the writer.        *)
(*                                                                         *)
(* A name is a sequence of one-character strings.  An input file is a      *)
(* sequence of lines; a line is a record that says which of the parser's   *)
(* two regular expressions it matches (CAT_RE, SEL_RE) and, when it        *)
(* matches neither, whether it is a comment, a blank line or other text.   *)
(***************************************************************************)
EXTENDS Integers, Sequences, FiniteSets, TLC

VARIABLES
    input,                  \* the lines of the input file (args.input)
    pc,                     \* main's position
    order,                  \* parse_file: category ids in first-seen order
    cats,                   \* parse_file: id -> [highlight, names]
    header_lines,           \* parse_file: the kept leading comment lines
    pref_to_cats,           \* main: the separator-prefix index
    unique_by_cat,          \* main: id -> kept hierarchical prefixes
    covered_by_unique,      \* main: id -> names covered by them
    trailing_idx,           \* main: the trailing-number index
    digit_patterns_by_cat,  \* main: id -> numeric merge patterns
    covered_by_digits,      \* main: id -> names covered by them
    leftovers_by_cat,       \* main: id -> sorted list of literal names
    i,                      \* the position of the running loop in order
    out,                    \* the lines written to args.output
    console,                \* what was printed (stderr / stdout)
    exit_code,              \* the process's exit code, -1 while running
    run,                    \* 1 in the first execution, 2 in the second
    prev_out,               \* the output file of the first execution
    progress                \* id -> stages finished for it (0, 1 or 2) when the
                            \* categories are processed in an order of their own

vars == <<input, pc, order, cats, header_lines, pref_to_cats, unique_by_cat,
          covered_by_unique, trailing_idx, digit_patterns_by_cat,
          covered_by_digits, leftovers_by_cat, i, out, console, exit_code,
          run, prev_out, progress>>

---------------------------------------------------------------------------
(* Characters and strings *)

SEPS == {".", "/"}

\* The characters \d matches, among those of the model's alphabet.
DigitChars == {"0", "1", "2", "3", "4", "5", "6", "7", "8", "9"}

\* The code point of each character of the model's alphabet: Python compares
\* strings by code point.
Ord == [c \in {"*", ".", "/", "0", "1", "2", "5", "9", "A", "C", "[", "]", "_",
               "a", "b", "e", "g", "i", "m", "o", "p", "r", "t", "x", "y"} |->
        CASE c = "*" -> 42 [] c = "." -> 46 [] c = "/" -> 47
          [] c = "0" -> 48 [] c = "1" -> 49 [] c = "2" -> 50 [] c = "5" -> 53
          [] c = "9" -> 57 [] c = "A" -> 65 [] c = "C" -> 67
          [] c = "[" -> 91 [] c = "]" -> 93 [] c = "_" -> 95
          [] c = "a" -> 97 [] c = "b" -> 98 [] c = "e" -> 101 [] c = "g" -> 103
          [] c = "i" -> 105 [] c = "m" -> 109 [] c = "o" -> 111
          [] c = "p" -> 112 [] c = "r" -> 114 [] c = "t" -> 116
          [] c = "x" -> 120 [] c = "y" -> 121]

Take(s, n) == SubSeq(s, 1, n)

Drop(s, n) == SubSeq(s, n + 1, Len(s))

\* str.startswith
StartsWith(s, p) == Len(p) <= Len(s) /\ Take(s, Len(p)) = p

Range(s) == {s[k] : k \in DOMAIN s}

\* Python's < on two strings.
LexLess(s, t) ==
    \E k \in 1..(Len(t)) :
        /\ k <= Len(s) + 1
        /\ Take(s, k - 1) = Take(t, k - 1)
        /\ (k = Len(s) + 1 \/ Ord[s[k]] < Ord[t[k]])

\* sorted(S) for a set of strings.
RECURSIVE SortedLex(_)
SortedLex(S) ==
    IF S = {} THEN <<>>
    ELSE LET m == CHOOSE x \in S : \A y \in S \ {x} : LexLess(x, y)
         IN <<m>> \o SortedLex(S \ {m})

\* The orders in which a Python set of strings may be iterated.
Orders(S) ==
    {s \in [1..Cardinality(S) -> S] : \A a, b \in DOMAIN s : a # b => s[a] # s[b]}

\* sorted(S, key=len) for a set S: the sort is stable, so strings of one
\* length stay in the set's iteration order, which str hashing decides.
SortedByLen(S) ==
    {s \in Orders(S) : \A a, b \in DOMAIN s : a < b => Len(s[a]) <= Len(s[b])}

---------------------------------------------------------------------------
(* parse_file *)

CatLine(id, color) == [kind |-> "cat", cat |-> id, color |-> color]

SelLine(name) == [kind |-> "sel", name |-> name]

CommentLine(text) == [kind |-> "comment", text |-> text]

BlankLine == [kind |-> "blank", text |-> ""]

TextLine(text) == [kind |-> "text", text |-> text]

CatIds == {"12", "7"}

NoCats == [c \in CatIds |-> [highlight |-> 0, names |-> <<>>]]

\* The parser's locals after the lines read so far.
ParseStart ==
    [order |-> <<>>, cats |-> NoCats, cur_cat |-> "", header_lines |-> <<>>]

\* The parser's step with a repeated header taking over the highlight.
ParseLine_LatestColor(st, line) ==
    IF line.kind = "cat"
    THEN IF line.cat \notin Range(st.order)
         THEN [st EXCEPT !.cur_cat = line.cat,
                         !.cats[line.cat] = [highlight |-> line.color, names |-> <<>>],
                         !.order = Append(@, line.cat)]
         ELSE [st EXCEPT !.cur_cat = line.cat, !.cats[line.cat].highlight = line.color]
    ELSE IF line.kind = "sel" /\ st.cur_cat # ""
    THEN [st EXCEPT !.cats[st.cur_cat].names = Append(@, line.name)]
    ELSE IF st.order = <<>> /\ line.kind \in {"comment", "blank"}
    THEN [st EXCEPT !.header_lines = Append(@, line.text)]
    ELSE st

\* The parser's step with comment and blank lines kept wherever they stand.
ParseLine_KeepAll(st, line) ==
    IF line.kind = "cat"
    THEN IF line.cat \notin Range(st.order)
         THEN [st EXCEPT !.cur_cat = line.cat,
                         !.cats[line.cat] = [highlight |-> line.color, names |-> <<>>],
                         !.order = Append(@, line.cat)]
         ELSE [st EXCEPT !.cur_cat = line.cat]
    ELSE IF line.kind = "sel" /\ st.cur_cat # ""
    THEN [st EXCEPT !.cats[st.cur_cat].names = Append(@, line.name)]
    ELSE IF line.kind \in {"comment", "blank"}
    THEN [st EXCEPT !.header_lines = Append(@, line.text)]
    ELSE st

ParseLine(st, line) ==
    IF line.kind = "cat"
    THEN IF line.cat \notin Range(st.order)
         THEN [st EXCEPT !.cur_cat = line.cat,
                         !.cats[line.cat] = [highlight |-> line.color, names |-> <<>>],
                         !.order = Append(@, line.cat)]
         ELSE [st EXCEPT !.cur_cat = line.cat]
    ELSE IF line.kind = "sel" /\ st.cur_cat # ""
    THEN [st EXCEPT !.cats[st.cur_cat].names = Append(@, line.name)]
    ELSE IF st.order = <<>> /\ line.kind \in {"comment", "blank"}
    THEN [st EXCEPT !.header_lines = Append(@, line.text)]
    ELSE st

RECURSIVE parse_file(_, _)
parse_file(lines, st) ==
    IF lines = <<>> THEN st
    ELSE parse_file(Tail(lines), ParseLine(st, Head(lines)))

---------------------------------------------------------------------------
(* Stage A: unique hierarchy prefixes *)

\* The positions of name that hold a separator.
SepPositions(name) == {k \in 1..Len(name) : name[k] \in SEPS}

\* All prefixes of name ending exactly at '.' or '/', as a set.
sep_prefixes(name) == {Take(name, k) : k \in SepPositions(name)}

\* set(d["names"]) for every parsed category (main's all_names_by_cat).
AllNamesByCat(cs, ord) ==
    [c \in CatIds |-> IF c \in Range(ord) THEN Range(cs[c].names) ELSE {}]

\* pref_to_cats as a function on the prefixes that occur; a prefix that does
\* not occur maps to the empty set, as the defaultdict answers.
build_sep_prefix_index(cs, ord) ==
    LET byCat == AllNamesByCat(cs, ord)
        prefs == UNION {sep_prefixes(nm) : nm \in UNION {byCat[c] : c \in CatIds}}
    IN [p \in prefs |->
          {c \in Range(ord) : \E nm \in byCat[c] : p \in sep_prefixes(nm)}]

PrefCats(idx, p) == IF p \in DOMAIN idx THEN idx[p] ELSE {}

\* The test of line 95 as membership: cat uses p, perhaps with others.
IsUsedBy(idx, p, cat) == cat \in PrefCats(idx, p)

\* Whether prefix p is unique to cat (line 95).
IsUniqueTo(idx, p, cat) == PrefCats(idx, p) = {cat}

\* The longest prefix-at-separator of nm unique to cat: the loop of lines
\* 94-97 without its break.
LongestUnique(nm, cat, idx) ==
    LET ks == {k \in SepPositions(nm) : IsUniqueTo(idx, Take(nm, k), cat)}
    IN IF ks = {} THEN <<>>
       ELSE <<Take(nm, CHOOSE k \in ks : \A k2 \in ks : k2 <= k)>>

\* The shortest prefix-at-separator of nm unique to cat: <<p>>, or <<>> when
\* there is none (uniq = None).
ShortestUnique(nm, cat, idx) ==
    LET ks == {k \in SepPositions(nm) : IsUniqueTo(idx, Take(nm, k), cat)}
    IN IF ks = {} THEN <<>>
       ELSE <<Take(nm, CHOOSE k \in ks : \A k2 \in ks : k <= k2)>>

\* The prefixes of nm the loop of lines 94-97 looks up in pref_to_cats: all
\* of them up to the first one unique to cat.
Looked(nm, cat, idx) ==
    {Take(nm, k) :
        k \in {k \in SepPositions(nm) :
                  \A j \in SepPositions(nm) : j < k => ~IsUniqueTo(idx, Take(nm, j), cat)}}

\* The index after a category has thrown away its own mark on every prefix
\* it looked up.
IndexAfterDiscard(idx, cat, looked) ==
    [p \in DOMAIN idx \cup looked |->
        IF p \in looked THEN PrefCats(idx, p) \ {cat} ELSE PrefCats(idx, p)]

\* pref_to_cats after the look-ups of line 95 for cat: pref_to_cats is a
\* defaultdict, and reading a key it does not hold stores the empty set
\* under it.
IndexAfterLookups(idx, cat, looked) ==
    [p \in DOMAIN idx \cup looked |-> PrefCats(idx, p)]

\* set(candidates), line 102.
Candidates(cat, names, idx) ==
    {ShortestUnique(nm, cat, idx)[1] :
        nm \in {n \in Range(names) : ShortestUnique(n, cat, idx) # <<>>}}

\* The loop of lines 103-106 over the sorted candidates.
RECURSIVE KeepLoop(_, _)
KeepLoop(sorted, kept) ==
    IF sorted = <<>> THEN kept
    ELSE LET p == Head(sorted)
         IN KeepLoop(Tail(sorted),
                     IF \E k \in Range(kept) : StartsWith(p, k)
                     THEN kept ELSE Append(kept, p))

\* The kept prefixes when the candidates come out of sorted(..., key=len) in
\* the order sorted.
KeptFrom(sorted) == Range(KeepLoop(sorted, <<>>))

\* Lines 108-112.
CoveredBy(names, kept) ==
    {nm \in Range(names) : \E k \in kept : StartsWith(nm, k)}

\* Every prefix-at-separator unique to cat of every name, kept as it is:
\* the function without the break of line 97 and the reduction of lines 104-106.
AllUniquePrefixes(cat, names, idx) ==
    LET all == {p \in UNION {sep_prefixes(nm) : nm \in Range(names)} :
                   IsUniqueTo(idx, p, cat)}
    IN {[kept |-> all, covered |-> CoveredBy(names, all)]}

\* The (kept, covered) pairs the function may return: one for each order in
\* which sorted(set(candidates), key=len) may leave candidates of one length.
compute_unique_prefixes_for_category(cat, names, idx) ==
    {[kept |-> KeptFrom(sorted), covered |-> CoveredBy(names, KeptFrom(sorted))] :
        sorted \in SortedByLen(Candidates(cat, names, idx))}

---------------------------------------------------------------------------
(* Stage B: trailing-number merges *)

AllDigits(s) == \A k \in DOMAIN s : s[k] \in DigitChars

NoDigits(s) == \A k \in DOMAIN s : s[k] \notin DigitChars

\* Whether s matches (\d+)(\D*)$ from its start.
TailMatches(s) ==
    \E k \in 1..Len(s) : AllDigits(Take(s, k)) /\ NoDigits(Drop(s, k))

\* The pattern without its (\D*) group: only a name that ends in a digit matches.
TAIL_NUM_RE_NoSuffix(nm) ==
    LET hs == {h \in 0..(Len(nm) - 1) : Drop(nm, h) # <<>> /\ AllDigits(Drop(nm, h))}
    IN IF hs = {} THEN [ok |-> FALSE, head |-> <<>>, digits |-> <<>>, suffix |-> <<>>]
       ELSE LET h == CHOOSE x \in hs : \A y \in hs : x <= y
            IN [ok |-> TRUE, head |-> Take(nm, h), digits |-> Drop(nm, h),
                suffix |-> <<>>]

\* TAIL_NUM_RE.match(nm): the lazy head is the shortest one after which
\* (\d+)(\D*)$ matches; the greedy \d+ then takes the whole digit run.
\* ok = FALSE when there is no match.
TAIL_NUM_RE(nm) ==
    LET hs == {h \in 0..(Len(nm) - 1) : TailMatches(Drop(nm, h))}
    IN IF hs = {} THEN [ok |-> FALSE, head |-> <<>>, digits |-> <<>>, suffix |-> <<>>]
       ELSE LET h == CHOOSE x \in hs : \A y \in hs : x <= y
                rest == Drop(nm, h)
                k == CHOOSE x \in 1..Len(rest) :
                        AllDigits(Take(rest, x)) /\ NoDigits(Drop(rest, x))
            IN [ok |-> TRUE, head |-> Take(nm, h), digits |-> Take(rest, k),
                suffix |-> Drop(rest, k)]

\* The key (head, suffix) of a match m.
KeyOfMatch(m) == <<m.head, m.suffix>>

KeyOf(nm) == KeyOfMatch(TAIL_NUM_RE(nm))

\* The index built over the names stage 1 left uncovered only.
LeftoverNumberIndex(byCat) ==
    LET left == [c \in CatIds |-> byCat[c] \ covered_by_unique[c]]
        all == UNION {left[c] : c \in CatIds}
        split == [nm \in all |-> TAIL_NUM_RE(nm)]
        entries ==
            UNION {{<<c, nm, split[nm].digits>> : nm \in {n \in left[c] : split[n].ok}} :
                      c \in CatIds}
    IN [key \in {KeyOfMatch(split[e[2]]) : e \in entries} |->
          {e \in entries : KeyOfMatch(split[e[2]]) = key}]

\* idx[(head, suffix)] as the set of its (cat, name, digits) entries; the
\* code's list holds them in the iteration order of the name sets, and
\* nothing reads that order.
build_trailing_number_index(byCat) ==
    LET all == UNION {byCat[c] : c \in CatIds}
        split == [nm \in all |-> TAIL_NUM_RE(nm)]
        entries ==
            UNION {{<<c, nm, split[nm].digits>> : nm \in {n \in byCat[c] : split[n].ok}} :
                      c \in CatIds}
    IN [key \in {KeyOfMatch(split[e[2]]) : e \in entries} |->
          {e \in entries : KeyOfMatch(split[e[2]]) = key}]

\* trailing_idx.get(key, [])
IdxGet(idx, key) == IF key \in DOMAIN idx THEN idx[key] ELSE {}

\* The whole numeric strings only, none of their shorter prefixes.
WholeNumbersOnly(nums) == nums

\* All leading prefixes of each numeric string in nums.
prefixes_of_numbers_set(nums) ==
    UNION {{Take(n, L) : L \in 1..Len(n)} : n \in nums}

\* Lines 171-173: the L the while loop ends with.
SafeLen(d, other_pref) ==
    LET free == {L \in 1..Len(d) : Take(d, L) \notin other_pref}
    IN IF free = {} THEN Len(d) + 1
       ELSE CHOOSE L \in free : \A L2 \in free : L <= L2

\* Line 164.
OtherNums(cat, key, idx) == {e[3] : e \in {x \in IdxGet(idx, key) : x[1] # cat}}

\* The digit-prefix of a name matched as m: <<dp>>, or <<>> when the name
\* is skipped because L > len(d) (line 176).
DPrefixOf(cat, m, idx) ==
    LET L == SafeLen(m.digits,
                     prefixes_of_numbers_set(OtherNums(cat, KeyOfMatch(m), idx)))
    IN IF L > Len(m.digits) THEN <<>> ELSE <<Take(m.digits, L)>>

\* The least number of names a digit-prefix must cover to be emitted.
MergeThreshold == 2

\* The threshold test with every non-empty group let through.
MergeableAny(nmlist) == Cardinality(nmlist) >= 1

\* Line 182.
Mergeable(nmlist) == Cardinality(nmlist) >= MergeThreshold

PatternOf(key, dp) == key[1] \o dp \o <<"*">> \o key[2]

\* groups, dprefix_to_names and the emission loop at once: a name is placed
\* under (key, dp), and the names of a (key, dp) that passes the threshold
\* are covered by the pattern of (key, dp).
make_digit_merges_for_category(cat, names_left, idx) ==
    LET split == [nm \in names_left |-> TAIL_NUM_RE(nm)]
        matched == {nm \in names_left : split[nm].ok}
        dp == [nm \in matched |-> DPrefixOf(cat, split[nm], idx)]
        placed == {nm \in matched : dp[nm] # <<>>}
        nmlist == [nm \in placed |->
                     {n \in placed : /\ KeyOfMatch(split[n]) = KeyOfMatch(split[nm])
                                     /\ dp[n] = dp[nm]}]
        merged == {nm \in placed : Mergeable(nmlist[nm])}
    IN [patterns |-> {PatternOf(KeyOfMatch(split[nm]), dp[nm][1]) : nm \in merged},
        covered |-> merged]

---------------------------------------------------------------------------
(* The final safety check *)

\* For a pattern that starts with '[': the position of the ']' that closes
\* the character class, 0 when there is none (fnmatch.translate: a ']' right
\* after the '[' belongs to the class).
ClassEnd(pat) ==
    LET from == IF Len(pat) >= 2 /\ pat[2] = "]" THEN 3 ELSE 2
        ends == {k \in from..Len(pat) : pat[k] = "]"}
    IN IF ends = {} THEN 0 ELSE CHOOSE k \in ends : \A k2 \in ends : k <= k2

\* fnmatch.fnmatchcase(nm, pat) on the model's alphabet, which holds none of
\* '?', '!', '-', '\': '*' matches any run of characters, '[seq]' matches
\* one character of seq, a '[' that is never closed and every other
\* character match themselves.
RECURSIVE fnmatchcase(_, _)
fnmatchcase(nm, pat) ==
    IF pat = <<>> THEN nm = <<>>
    ELSE IF Head(pat) = "*"
    THEN \E k \in 0..Len(nm) : fnmatchcase(Drop(nm, k), Tail(pat))
    ELSE IF Head(pat) = "[" /\ ClassEnd(pat) > 0
    THEN /\ nm # <<>>
         /\ nm[1] \in {pat[k] : k \in 2..(ClassEnd(pat) - 1)}
         /\ fnmatchcase(Tail(nm), Drop(pat, ClassEnd(pat)))
    ELSE /\ nm # <<>>
         /\ nm[1] = Head(pat)
         /\ fnmatchcase(Tail(nm), Tail(pat))

\* cats_hit of lines 270-278, up to the early break: the break leaves the
\* loops only once two categories are hit, and then cats_hit # {cat} either way.
CatsHit(patt, byCat) ==
    {c \in CatIds : \E nm \in byCat[c] : fnmatchcase(nm, patt)}

\* safe_patts of lines 268-281.
SafePatterns(cat, patts, byCat) ==
    {patt \in patts : CatsHit(patt, byCat) = {cat}}

---------------------------------------------------------------------------
(* write_output *)

RECURSIVE SumOver(_, _)
SumOver(ord, f) ==
    IF ord = <<>> THEN 0 ELSE f[Head(ord)] + SumOver(Tail(ord), f)

\* total_in of line 189.
TotalIn(ord, cs) == SumOver(ord, [c \in CatIds |-> Len(cs[c].names)])

SelOut(patt, hlt) == [kind |-> "sel", name |-> patt, hl |-> hlt]

\* The lines of one category with the literal names written before the
\* numeric patterns.
CatBlock_LiteralsFirst(cat, hlt, uprefs, dpatts, leftovers) ==
    <<[kind |-> "cat", cat |-> cat, color |-> hlt]>>
    \o [k \in 1..Len(uprefs) |-> SelOut(uprefs[k] \o <<"*">>, hlt)]
    \o [k \in 1..Len(leftovers) |-> SelOut(leftovers[k], hlt)]
    \o [k \in 1..Len(dpatts) |-> SelOut(dpatts[k], hlt)]

\* The lines written for one category; uprefs is sorted(unique_by_cat[cat],
\* key=len).
CatBlock(cat, hlt, uprefs, dpatts, leftovers) ==
    <<[kind |-> "cat", cat |-> cat, color |-> hlt]>>
    \o [k \in 1..Len(uprefs) |-> SelOut(uprefs[k] \o <<"*">>, hlt)]
    \o [k \in 1..Len(dpatts) |-> SelOut(dpatts[k], hlt)]
    \o [k \in 1..Len(leftovers) |-> SelOut(leftovers[k], hlt)]

RECURSIVE CatBlocks(_, _, _, _, _)
CatBlocks(ord, cs, uprefs, dpatts, leftovers) ==
    IF ord = <<>> THEN <<>>
    ELSE LET c == Head(ord)
         IN CatBlock(c, cs[c].highlight, uprefs[c], SortedLex(dpatts[c]),
                     SortedLex(Range(leftovers[c])))
            \o CatBlocks(Tail(ord), cs, uprefs, dpatts, leftovers)

\* Line 198: the line '# ' + h, as the pair of its two pieces.
WrittenComment(h) == [kind |-> "comment", text |-> <<"# ", h>>]

\* The lines written before the first category.
Preamble(hdr, total_in) ==
    <<[kind |-> "banner", text |-> "Auto-compressed Tcl selects (hierarchy + numeric merges)"],
      [kind |-> "banner", text |-> "Original lines:", n |-> total_in],
      [kind |-> "banner", text |-> "Generated by compress_tcl_selects.py"]>>
    \o [k \in 1..Len(hdr) |-> WrittenComment(hdr[k])]
    \o <<[kind |-> "blank", text |-> ""]>>

\* The file written, when sorted(unique_by_cat[cat], key=len) gives uprefs[cat].
write_output(hdr, ord, cs, uprefs, dpatts, leftovers) ==
    Preamble(hdr, TotalIn(ord, cs)) \o CatBlocks(ord, cs, uprefs, dpatts, leftovers)

\* total_out of line 216.
TotalOut(ord, uniq, dpatts, leftovers) ==
    SumOver(ord, [c \in CatIds |->
                    Cardinality(uniq[c]) + Cardinality(dpatts[c]) + Len(leftovers[c])])

---------------------------------------------------------------------------
(* main *)

NoSets == [c \in CatIds |-> {}]

NoLists == [c \in CatIds |-> <<>>]

NoProgress == [c \in CatIds |-> 0]

\* The state of a fresh process that is to read the file f.
Fresh(f) ==
    /\ input = f
    /\ pc = "start"
    /\ order = <<>>
    /\ cats = NoCats
    /\ header_lines = <<>>
    /\ pref_to_cats = <<>>
    /\ unique_by_cat = NoSets
    /\ covered_by_unique = NoSets
    /\ trailing_idx = <<>>
    /\ digit_patterns_by_cat = NoSets
    /\ covered_by_digits = NoSets
    /\ leftovers_by_cat = NoLists
    /\ i = 0
    /\ out = <<>>
    /\ console = <<>>
    /\ exit_code = -1
    /\ progress = NoProgress

\* Line 226.
Parse ==
    /\ pc = "start"
    /\ LET st == parse_file(input, ParseStart)
       IN /\ order' = st.order
          /\ cats' = st.cats
          /\ header_lines' = st.header_lines
    /\ pc' = "parsed"
    /\ UNCHANGED <<input, pref_to_cats, unique_by_cat, covered_by_unique,
                   trailing_idx, digit_patterns_by_cat, covered_by_digits,
                   leftovers_by_cat, i, out, console, exit_code, run, prev_out, progress>>

\* The test of line 227 never taken.
NoCategoriesNever(ord) == FALSE

\* The test of line 227.
NoCategories(ord) == ord = <<>>

\* Lines 227-229.
ExitNoCategories ==
    /\ pc = "parsed"
    /\ NoCategories(order)
    /\ console' = Append(console, [stream |-> "stderr", text |-> "No categories found."])
    /\ exit_code' = 1
    /\ pc' = "exit"
    /\ UNCHANGED <<input, order, cats, header_lines, pref_to_cats, unique_by_cat,
                   covered_by_unique, trailing_idx, digit_patterns_by_cat,
                   covered_by_digits, leftovers_by_cat, i, out, run, prev_out, progress>>

\* Lines 231-237.
BuildPrefixIndex ==
    /\ pc = "parsed"
    /\ ~NoCategories(order)
    /\ pref_to_cats' = build_sep_prefix_index(cats, order)
    /\ i' = 1
    /\ pc' = "stage1"
    /\ UNCHANGED <<input, order, cats, header_lines, unique_by_cat,
                   covered_by_unique, trailing_idx, digit_patterns_by_cat,
                   covered_by_digits, leftovers_by_cat, out, console, exit_code,
                   run, prev_out, progress>>

\* The body of the loop of lines 239-242 for cat:
\* compute_unique_prefixes_for_category and the two assignments.
StageOneFor(cat) ==
    /\ \E r \in compute_unique_prefixes_for_category(cat, cats[cat].names, pref_to_cats) :
          /\ unique_by_cat' = [unique_by_cat EXCEPT ![cat] = r.kept]
          /\ covered_by_unique' = [covered_by_unique EXCEPT ![cat] = r.covered]
    /\ pref_to_cats' =
          IndexAfterLookups(pref_to_cats, cat,
              UNION {Looked(nm, cat, pref_to_cats) : nm \in Range(cats[cat].names)})

\* One turn of the loop of lines 239-242, for order[i].
UniquePrefixes ==
    /\ pc = "stage1"
    /\ i <= Len(order)
    /\ StageOneFor(order[i])
    /\ i' = i + 1
    /\ UNCHANGED <<input, pc, order, cats, header_lines,
                   trailing_idx, digit_patterns_by_cat, covered_by_digits,
                   leftovers_by_cat, out, console, exit_code, run, prev_out, progress>>

\* Lines 245-248.
BuildTrailingIndex ==
    /\ pc = "stage1"
    /\ i > Len(order)
    /\ trailing_idx' = build_trailing_number_index(AllNamesByCat(cats, order))
    /\ i' = 1
    /\ pc' = "stage2"
    /\ UNCHANGED <<input, order, cats, header_lines, pref_to_cats, unique_by_cat,
                   covered_by_unique, digit_patterns_by_cat, covered_by_digits,
                   leftovers_by_cat, out, console, exit_code, run, prev_out, progress>>

\* Line 252.
NamesLeft(cat) == Range(cats[cat].names) \ covered_by_unique[cat]

\* The names stage 1 left, those a numeric pattern covers included.
LeftoversAll(names_left, dcovered) == SortedLex(names_left)

\* Line 261: the names written as literals.
Leftovers(names_left, dcovered) == SortedLex(names_left \ dcovered)

\* The body of the loop of lines 250-261 for cat.
StageTwoFor(cat) ==
    LET r == make_digit_merges_for_category(cat, NamesLeft(cat), trailing_idx)
    IN /\ digit_patterns_by_cat' = [digit_patterns_by_cat EXCEPT ![cat] = r.patterns]
       /\ covered_by_digits' = [covered_by_digits EXCEPT ![cat] = r.covered]
       /\ leftovers_by_cat' =
             [leftovers_by_cat EXCEPT ![cat] = Leftovers(NamesLeft(cat), r.covered)]

\* One turn of the loop of lines 250-261, for order[i].
DigitMerges ==
    /\ pc = "stage2"
    /\ i <= Len(order)
    /\ StageTwoFor(order[i])
    /\ i' = i + 1
    /\ pc' = IF i = Len(order) THEN "verify" ELSE "stage2"
    /\ UNCHANGED <<input, order, cats, header_lines, pref_to_cats, unique_by_cat,
                   covered_by_unique, trailing_idx, out, console, exit_code, run,
                   prev_out, progress>>

\* The loop of lines 267-281: every category's patterns are re-matched
\* against the names of all categories.
SafetyCheck ==
    /\ pc = "verify"
    /\ digit_patterns_by_cat' =
         [c \in CatIds |->
            IF c \in Range(order)
            THEN SafePatterns(c, digit_patterns_by_cat[c], AllNamesByCat(cats, order))
            ELSE digit_patterns_by_cat[c]]
    /\ pc' = "write"
    /\ UNCHANGED <<input, order, cats, header_lines, pref_to_cats, unique_by_cat,
                   covered_by_unique, trailing_idx, covered_by_digits,
                   leftovers_by_cat, i, out, console, exit_code, run, prev_out, progress>>

\* Line 284 and the normal end of the process.
WriteOutput ==
    /\ pc = "write"
    /\ \E uprefs \in [CatIds -> UNION {SortedByLen(unique_by_cat[c]) : c \in CatIds}] :
         /\ \A c \in CatIds : uprefs[c] \in SortedByLen(unique_by_cat[c])
         /\ out' = write_output(header_lines, order, cats, uprefs,
                                digit_patterns_by_cat, leftovers_by_cat)
    /\ console' = Append(console,
         [stream |-> "stdout", total_in |-> TotalIn(order, cats),
          total_out |-> TotalOut(order, unique_by_cat, digit_patterns_by_cat,
                                 leftovers_by_cat)])
    /\ exit_code' = 0
    /\ pc' = "done"
    /\ UNCHANGED <<input, order, cats, header_lines, pref_to_cats, unique_by_cat,
                   covered_by_unique, trailing_idx, digit_patterns_by_cat,
                   covered_by_digits, leftovers_by_cat, i, run, prev_out, progress>>

\* The program is run a second time on the same input file; the output of
\* the first run is set aside.
RunAgain ==
    /\ pc = "done"
    /\ run = 1
    /\ run' = 2
    /\ prev_out' = out
    /\ pc' = "start"
    /\ order' = <<>>
    /\ cats' = NoCats
    /\ header_lines' = <<>>
    /\ pref_to_cats' = <<>>
    /\ unique_by_cat' = NoSets
    /\ covered_by_unique' = NoSets
    /\ trailing_idx' = <<>>
    /\ digit_patterns_by_cat' = NoSets
    /\ covered_by_digits' = NoSets
    /\ leftovers_by_cat' = NoLists
    /\ i' = 0
    /\ out' = <<>>
    /\ console' = <<>>
    /\ exit_code' = -1
    /\ UNCHANGED <<input, progress>>

Next ==
    \/ Parse
    \/ ExitNoCategories
    \/ BuildPrefixIndex
    \/ UniquePrefixes
    \/ BuildTrailingIndex
    \/ DigitMerges
    \/ SafetyCheck
    \/ WriteOutput
    \/ RunAgain

\* The per-category work of lines 239-242 and 250-261 taken out of main's
\* two loops: both indices are built first, then the body of the first loop
\* runs for any category not yet started and the body of the second for any
\* category whose first stage is finished, in whatever order.

\* Lines 236 and 245 together.
BuildIndices ==
    /\ pc = "parsed"
    /\ ~NoCategories(order)
    /\ pref_to_cats' = build_sep_prefix_index(cats, order)
    /\ trailing_idx' = build_trailing_number_index(AllNamesByCat(cats, order))
    /\ pc' = "work"
    /\ UNCHANGED <<input, order, cats, header_lines, unique_by_cat,
                   covered_by_unique, digit_patterns_by_cat, covered_by_digits,
                   leftovers_by_cat, i, out, console, exit_code, run, prev_out,
                   progress>>

StageOneOf(cat) ==
    /\ pc = "work"
    /\ cat \in Range(order)
    /\ progress[cat] = 0
    /\ StageOneFor(cat)
    /\ progress' = [progress EXCEPT ![cat] = 1]
    /\ UNCHANGED <<input, pc, order, cats, header_lines, trailing_idx,
                   digit_patterns_by_cat, covered_by_digits, leftovers_by_cat, i,
                   out, console, exit_code, run, prev_out>>

StageTwoOf(cat) ==
    /\ pc = "work"
    /\ cat \in Range(order)
    /\ progress[cat] = 1
    /\ StageTwoFor(cat)
    /\ progress' = [progress EXCEPT ![cat] = 2]
    /\ pc' = IF \A c \in Range(order) \ {cat} : progress[c] = 2 THEN "verify" ELSE "work"
    /\ UNCHANGED <<input, order, cats, header_lines, pref_to_cats, unique_by_cat,
                   covered_by_unique, trailing_idx, i, out, console, exit_code,
                   run, prev_out>>

AnyStageOne == \E cat \in CatIds : StageOneOf(cat)

AnyStageTwo == \E cat \in CatIds : StageTwoOf(cat)

NextAnyOrder ==
    \/ Parse
    \/ ExitNoCategories
    \/ BuildIndices
    \/ AnyStageOne
    \/ AnyStageTwo
    \/ SafetyCheck
    \/ WriteOutput

---------------------------------------------------------------------------
(* Input files *)

H12 == CatLine("12", 3)

H7 == CatLine("7", 1)

\* All files of at most n lines drawn from lines.
FilesOver(lines, n) == UNION {[1..k -> lines] : k \in 0..n}

\* All files made of the header h or none, then at most n selection lines of
\* the names in own, then at most m lines drawn from lb.
Sections(h, own, n, lb, m) ==
    {hh \o a \o b : hh \in {<<>>, <<h>>},
                    a \in FilesOver({SelLine(nm) : nm \in own}, n),
                    b \in FilesOver(lb, m)}

MaxLines == 5

MaxOwn == 3

MaxOther == 2

StartWith(files) == \E f \in files : Fresh(f) /\ run = 1 /\ prev_out = <<>>

\* Names that share the hierarchy prefix a/ and the trailing-number shape.
a_10 == <<"a", "/", "1", "0">>

a_11 == <<"a", "/", "1", "1">>

a_1b == <<"a", "/", "1", "b">>

a_b_2 == <<"a", "/", "b", "/", "2">>

MainLines == {H12, H7, SelLine(a_10), SelLine(a_11), SelLine(a_1b), SelLine(a_b_2)}

Init == StartWith(FilesOver(MainLines, MaxLines))

Spec == Init /\ [][Next]_vars

\* The same files with the categories processed in any order.
SpecAnyOrder == Init /\ [][NextAnyOrder]_vars

\* Names in two hierarchies, one of them two levels deep.
a_x == <<"a", "/", "x">>

a_b_y == <<"a", "/", "b", "/", "y">>

b_x == <<"b", "/", "x">>

HierLines == {H12, H7, SelLine(a_x), SelLine(a_b_y), SelLine(b_x)}

InitHier == StartWith(FilesOver(HierLines, MaxLines))

SpecHier == InitHier /\ [][Next]_vars

\* Names that hold the characters fnmatch reads as a character class.
br_a_10 == <<"[", "a", "]", "1", "0">>

br_a_11 == <<"[", "a", "]", "1", "1">>

br_a_1b == <<"[", "a", "]", "1", "b">>

a1 == <<"a", "1">>

InitBracket ==
    StartWith(Sections(H12, {br_a_10, br_a_11, a1}, MaxOwn,
                       {H7, SelLine(br_a_1b)}, MaxOther))

SpecBracket == InitBracket /\ [][Next]_vars

\* Scenario A of the specification.
top_memA_bit0 == <<"t", "o", "p", "/", "m", "e", "m", "A", "/", "b", "i", "t", "0">>

top_memA_bit1 == <<"t", "o", "p", "/", "m", "e", "m", "A", "/", "b", "i", "t", "1">>

top_memC_y == <<"t", "o", "p", "/", "m", "e", "m", "C", "/", "y">>

InitScenarioA ==
    StartWith(Sections(H12, {top_memA_bit0, top_memA_bit1}, MaxOwn,
                       {H7, SelLine(top_memC_y)}, MaxOther))

SpecScenarioA == InitScenarioA /\ [][Next]_vars

\* Scenario B of the specification; its categories 5 and 9 are written 12
\* and 7 here (the program only compares category ids for equality).
reg_00_0 == <<"r", "e", "g", "_", "0", "0", "[", "0", "]">>

reg_00_1 == <<"r", "e", "g", "_", "0", "0", "[", "1", "]">>

reg_00_2 == <<"r", "e", "g", "_", "0", "0", "[", "2", "]">>

reg_005 == <<"r", "e", "g", "_", "0", "0", "5">>

InitScenarioB ==
    StartWith(Sections(H12, {reg_00_0, reg_00_1, reg_00_2}, MaxOwn,
                       {H7, SelLine(reg_005)}, MaxOther))

SpecScenarioB == InitScenarioB /\ [][Next]_vars

\* Scenario C of the specification, under the head x; its categories 1 and 2
\* are written 12 and 7.
x100 == <<"x", "1", "0", "0">>

x101 == <<"x", "1", "0", "1">>

x199 == <<"x", "1", "9", "9">>

x10 == <<"x", "1", "0">>

InitScenarioC ==
    StartWith(Sections(H12, {x100, x101, x199}, MaxOwn,
                       {H7, SelLine(x10), SelLine(x199)}, MaxOther))

SpecScenarioC == InitScenarioC /\ [][Next]_vars

\* Names whose last digit run is followed by a separator: the hierarchy
\* prefix of such a name reaches past its digits.
n1_b == <<"1", "/", "b">>

n10_a == <<"1", "0", "/", "a">>

n1_a == <<"1", "/", "a">>

InitSuffix ==
    StartWith(Sections(H12, {n1_b, n10_a}, MaxOwn, {H7, SelLine(n1_a)}, MaxOther))

SpecSuffix == InitSuffix /\ [][Next]_vars

\* The bracketed names again, with room for one of them in both categories.
InitBracketDup ==
    StartWith(Sections(H12, {br_a_10, br_a_11, br_a_1b, a1}, MaxOwn + 1,
                       {H7, SelLine(br_a_1b)}, MaxOther))

SpecBracketDup == InitBracketDup /\ [][Next]_vars

\* Files in which either category may come first and a category may hold a
\* hierarchical name, names that merge on their digits and a lone name.
OrderTail == {H12, H7, SelLine(a1)}

InitOrder ==
    StartWith(Sections(H12, {a_x, x100, x101}, MaxOwn, OrderTail, MaxOther)
              \cup Sections(H7, {a_x, x100, x101}, MaxOwn, OrderTail, MaxOther))

SpecOrder == InitOrder /\ [][Next]_vars

\* Files in which the header of category 12 may come again with another color.
H12_again == CatLine("12", 9)

InitRepeat ==
    StartWith(FilesOver({H12, H12_again, H7, SelLine(a_x), SelLine(b_x)}, MaxLines))

SpecRepeat == InitRepeat /\ [][Next]_vars

\* Files with lines that are neither headers nor selection lines: a comment,
\* a blank line and a line of other text, before and after a header.
NoteLine == CommentLine("# note")

JunkLine == TextLine("junk")

InitOther ==
    StartWith(FilesOver({H12, SelLine(a_x), NoteLine, BlankLine, JunkLine}, MaxLines))

SpecOther == InitOther /\ [][Next]_vars

---------------------------------------------------------------------------
(* What the output file selects *)

\* The position in out of the header of category c.
HeaderPos(c) == CHOOSE k \in DOMAIN out : out[k].kind = "cat" /\ out[k].cat = c

\* The positions of the select lines written under the header of c.
BlockPositions(c) ==
    {k \in DOMAIN out :
        /\ k > HeaderPos(c)
        /\ \A j \in (HeaderPos(c) + 1)..k : out[j].kind = "sel"}

\* The names written for category c, patterns and literals alike.
EmittedNames(c) == {out[k].name : k \in BlockPositions(c)}

IsPattern(p) == "*" \in Range(p)

EmittedPatterns(c) == {p \in EmittedNames(c) : IsPattern(p)}

EmittedLiterals(c) == {p \in EmittedNames(c) : ~IsPattern(p)}

\* Glob matching in which '*' stands for any run of zero or more characters
\* and every other character for itself.
RECURSIVE GlobMatch(_, _)
GlobMatch(nm, pat) ==
    IF pat = <<>> THEN nm = <<>>
    ELSE IF Head(pat) = "*"
    THEN \E k \in 0..Len(nm) : GlobMatch(Drop(nm, k), Tail(pat))
    ELSE nm # <<>> /\ nm[1] = Head(pat) /\ GlobMatch(Tail(nm), Tail(pat))

\* The original names of category c.
NamesOf(c) == Range(cats[c].names)

\* The names of the whole corpus.
Corpus == UNION {NamesOf(c) : c \in Range(order)}

\* The categories that own a name matched by pattern p.
GlobCats(p) == {c \in Range(order) : \E nm \in NamesOf(c) : GlobMatch(nm, p)}

\* The corpus names selected by the output lines of category c.
Selected(c) ==
    {nm \in Corpus : \E p \in EmittedPatterns(c) : GlobMatch(nm, p)}
    \cup EmittedLiterals(c)

---------------------------------------------------------------------------
(* Claims *)

\* C1: every pattern in the final output of a category, matched with '*' as
\* any run of characters against the names of all categories, matches at
\* least one name and only names of that category.
C1_PatternsExclusive ==
    pc = "done" =>
        \A c \in Range(order) : \A p \in EmittedPatterns(c) : GlobCats(p) = {c}

\* C2: for every category, the corpus names matched by its emitted patterns
\* together with its emitted literals are exactly its original names.
C2_Complete ==
    pc = "done" => \A c \in Range(order) : Selected(c) = NamesOf(c)

\* The numeric patterns of category c that the safety check removed.
Discarded(c) ==
    make_digit_merges_for_category(c, NamesLeft(c), trailing_idx).patterns
    \ digit_patterns_by_cat[c]

\* C3: when the safety check discards a numeric pattern of a category because
\* it matches names of more than one category, every name the pattern covered
\* is written as a literal line of that category.
C3_DiscardedRevert ==
    pc = "done" =>
        \A c \in Range(order) : \A p \in Discarded(c) :
            Cardinality(GlobCats(p)) > 1 =>
                \A nm \in NamesLeft(c) : GlobMatch(nm, p) => nm \in EmittedLiterals(c)

C3_Reached ==
    pc = "done" /\ \E c \in Range(order) : \E p \in Discarded(c) : Cardinality(GlobCats(p)) > 1

\* C4: no two distinct kept hierarchical prefixes of a category stand in a
\* prefix/extension relation.
C4_Antichain ==
    \A c \in CatIds : \A p, q \in unique_by_cat[c] :
        p # q => ~StartsWith(p, q) /\ ~StartsWith(q, p)

\* A category that keeps two prefixes and has a name with two prefixes unique
\* to the category, the longer of which was not kept.
C4_Witness ==
    \E c \in Range(order) :
        /\ Cardinality(unique_by_cat[c]) >= 2
        /\ \E nm \in NamesOf(c) :
              Cardinality({p \in sep_prefixes(nm) : IsUniqueTo(pref_to_cats, p, c)}) >= 2

\* C5: every emitted numeric merge pattern covers at least two distinct names
\* of its category, and every kept hierarchical prefix at least one.
C5_Threshold ==
    pc = "done" =>
        \A c \in Range(order) :
            /\ \A p \in digit_patterns_by_cat[c] :
                  /\ p \in EmittedPatterns(c)
                  /\ Cardinality({nm \in NamesOf(c) : GlobMatch(nm, p)}) >= 2
            /\ \A k \in unique_by_cat[c] :
                  /\ k \o <<"*">> \in EmittedPatterns(c)
                  /\ Cardinality({nm \in NamesOf(c) : StartsWith(nm, k)}) >= 1

\* An output that holds a numeric pattern and a hierarchical prefix.
C5_Witness ==
    /\ pc = "done"
    /\ \E c \in Range(order) : digit_patterns_by_cat[c] # {}
    /\ \E c \in Range(order) : unique_by_cat[c] # {}

\* C6: a second run on the same input writes the same lines as the first.
C6_Deterministic == (pc = "done" /\ run = 2) => out = prev_out

\* C7: with zero categories parsed main prints a diagnostic and exits with
\* code 1, having run no stage and written nothing; with at least one it
\* writes the output and ends with code 0.
C7_ExitCodes ==
    LET zero == parse_file(input, ParseStart).order = <<>>
    IN /\ zero /\ pc \notin {"start", "parsed"} =>
            /\ pc = "exit"
            /\ exit_code = 1
            /\ console = <<[stream |-> "stderr", text |-> "No categories found."]>>
            /\ out = <<>>
            /\ pref_to_cats = <<>> /\ trailing_idx = <<>>
            /\ unique_by_cat = NoSets /\ digit_patterns_by_cat = NoSets
            /\ leftovers_by_cat = NoLists
       /\ ~zero => pc # "exit" /\ exit_code \in {-1, 0}
       /\ ~zero => (exit_code = 0 <=> pc = "done")
       /\ ~zero /\ pc = "done" => out # <<>>
       /\ ~zero /\ pc # "done" =>
            \/ pc \in {"start", "parsed", "verify", "write"}
            \/ pc = "stage1" /\ i <= Len(order) + 1
            \/ pc = "stage2" /\ i <= Len(order)

\* A file that holds selection lines and no category header has been refused.
C7_Witness == pc = "exit" /\ \E k \in DOMAIN input : input[k].kind = "sel"

ScenarioA ==
    /\ Range(order) = CatIds
    /\ NamesOf("12") = {top_memA_bit0, top_memA_bit1}
    /\ NamesOf("7") = {top_memC_y}

\* The highlight of every select line written under the header of c is h.
BlockHighlight(c, h) == \A k \in BlockPositions(c) : out[k].hl = h

\* C8 as stated: in Scenario A category 12 emits the single pattern
\* top/memA/* and category 7 emits top/memC/y as a literal line.
C8_ScenarioA_Literal ==
    pc = "done" /\ ScenarioA =>
        /\ EmittedNames("12") = {SubSeq(top_memA_bit0, 1, 9) \o <<"*">>}
        /\ EmittedNames("7") = {top_memC_y}

\* C8 as amended: in Scenario A category 12 emits the single pattern
\* top/memA/* with highlight 3, which covers both of its names, and category
\* 7 emits the single pattern top/memC/* with highlight 1 and no literal line.
C8_ScenarioA ==
    pc = "done" /\ ScenarioA =>
        /\ EmittedNames("12") = {SubSeq(top_memA_bit0, 1, 9) \o <<"*">>}
        /\ Selected("12") = {top_memA_bit0, top_memA_bit1}
        /\ BlockHighlight("12", 3)
        /\ EmittedNames("7") = {SubSeq(top_memC_y, 1, 9) \o <<"*">>}
        /\ Selected("7") = {top_memC_y}
        /\ BlockHighlight("7", 1)

C8_Witness == pc = "done" /\ ScenarioA

HasDigit(nm) == \E k \in DOMAIN nm : nm[k] \in DigitChars

\* The last digit run of nm is followed by non-digit characters.
TailAfterDigits(nm) == HasDigit(nm) /\ nm[Len(nm)] \notin DigitChars

\* The entries of the trailing-number index, whatever their key.
IdxEntries == UNION {trailing_idx[key] : key \in DOMAIN trailing_idx}

IndexBuilt == pc \in {"stage2", "verify", "write", "done"}

\* C9 as stated: a name whose last digit run is followed by non-digit
\* characters is in no (head, suffix) group of the trailing-number index or of
\* the merge selector and is covered by no numeric pattern.
C9_TailedExcluded ==
    IndexBuilt =>
        \A c \in Range(order) : \A nm \in NamesOf(c) :
            TailAfterDigits(nm) =>
                /\ \A e \in IdxEntries : e[2] # nm
                /\ ~TAIL_NUM_RE(nm).ok
                /\ nm \notin covered_by_digits[c]

ScenarioB ==
    /\ Range(order) = CatIds
    /\ NamesOf("12") = {reg_00_0, reg_00_1, reg_00_2}
    /\ NamesOf("7") = {reg_005}

\* C9 as amended: every name that holds a digit, with or without characters
\* after its last digit run, is in the group (head, suffix) of the index,
\* where name = head + digits + suffix, digits is the whole last digit run
\* and suffix the digit-free rest; in Scenario B the three bracketed names
\* share one group, get the digit-prefixes 0, 1 and 2, and so are covered by
\* no numeric pattern: every name of Scenario B is written as a literal.
C9_TailedGrouped ==
    /\ IndexBuilt =>
          \A c \in Range(order) : \A nm \in NamesOf(c) :
              HasDigit(nm) =>
                  \E key \in DOMAIN trailing_idx : \E e \in trailing_idx[key] :
                      /\ e[1] = c /\ e[2] = nm
                      /\ key[1] \o e[3] \o key[2] = nm
                      /\ e[3] # <<>> /\ AllDigits(e[3]) /\ NoDigits(key[2])
                      /\ (key[1] = <<>> \/ key[1][Len(key[1])] \notin DigitChars)
    /\ IndexBuilt /\ ScenarioB =>
          /\ \E key \in DOMAIN trailing_idx :
                {e[2] : e \in trailing_idx[key]} = {reg_00_0, reg_00_1, reg_00_2}
          /\ pc \in {"verify", "write", "done"} =>
                digit_patterns_by_cat = NoSets /\ covered_by_digits = NoSets
          /\ pc = "done" =>
                /\ EmittedNames("12") = {reg_00_0, reg_00_1, reg_00_2}
                /\ EmittedNames("7") = {reg_005}

C9_Witness == pc = "done" /\ ScenarioB

\* The digit-prefix the claim gives a name of category c with digit string d
\* in the group key: <<d[:L]>> for the smallest L such that d[:L] starts no
\* digit string of another category in the group, <<>> when there is no such L.
ClaimedPrefix(c, key, d) ==
    LET competitors == {e[3] : e \in {x \in IdxGet(trailing_idx, key) : x[1] # c}}
        free == {L \in 1..Len(d) : \A n \in competitors : ~StartsWith(n, Take(d, L))}
    IN IF free = {} THEN <<>>
       ELSE <<Take(d, CHOOSE L \in free : \A L2 \in free : L <= L2)>>

ScenarioC ==
    /\ Range(order) = CatIds
    /\ NamesOf("12") = {x100, x101, x199}
    /\ NamesOf("7") = {x10}

\* C10: a name's digit-prefix is d[:L] for the smallest L such that d[:L]
\* starts no digit string of another category in its group; a name all of
\* whose prefixes are taken is in no group and stays a leftover, written as a
\* literal; the names merged are those whose digit-prefix group has two
\* members or more.  In Scenario C no pattern results and all names are literal.
C10_MinimalSafePrefix ==
    /\ pc \in {"verify", "done"} =>
          \A c \in Range(order) :
              LET split == [nm \in NamesLeft(c) |-> TAIL_NUM_RE(nm)]
                  left == {nm \in NamesLeft(c) : split[nm].ok}
                  key == [nm \in left |-> <<split[nm].head, split[nm].suffix>>]
                  cp == [nm \in left |-> ClaimedPrefix(c, key[nm], split[nm].digits)]
              IN \A nm \in left :
                    /\ cp[nm] = <<>> =>
                          /\ nm \notin covered_by_digits[c]
                          /\ nm \in Range(leftovers_by_cat[c])
                          /\ pc = "done" => nm \in EmittedLiterals(c)
                    /\ cp[nm] # <<>> =>
                          (nm \in covered_by_digits[c] <=>
                              \E n \in left \ {nm} : key[n] = key[nm] /\ cp[n] = cp[nm])
                    /\ (pc = "verify" /\ nm \in covered_by_digits[c]) =>
                          key[nm][1] \o cp[nm][1] \o <<"*">> \o key[nm][2]
                              \in digit_patterns_by_cat[c]
    /\ pc = "done" /\ ScenarioC =>
          /\ digit_patterns_by_cat = NoSets
          /\ EmittedNames("12") = {x100, x101, x199}
          /\ EmittedNames("7") = {x10}

C10_Witness == pc = "done" /\ ScenarioC

\* C11 as stated: every (category, name, digits) triple of the trailing-number
\* index refers to a name that no kept hierarchical prefix of its category
\* covers.
C11_LeftoversOnly ==
    IndexBuilt => \A e \in IdxEntries : e[2] \notin covered_by_unique[e[1]]

\* The last digit run of a name that holds a digit.
LastDigits(nm) ==
    LET ends == {k \in DOMAIN nm : nm[k] \in DigitChars}
        last == CHOOSE k \in ends : \A k2 \in ends : k2 <= k
        starts == {j \in 1..last : \A k \in j..last : nm[k] \in DigitChars}
        first == CHOOSE j \in starts : \A j2 \in starts : j <= j2
    IN [head |-> Take(nm, first - 1), digits |-> SubSeq(nm, first, last),
        suffix |-> Drop(nm, last)]

\* C11 as amended: the trailing-number index is built over all names of all
\* categories, those covered by stage 1 included: its triples are exactly the
\* (category, name, last digit run) of every name that holds a digit.  A name
\* covered by stage 1 therefore does contribute to the forbidden sets of the
\* other categories: a stage-1 leftover whose digits start the digits of a name
\* of another category in its group, covered or not, is never merged.
C11_IndexOverAll ==
    /\ IndexBuilt =>
          IdxEntries = {<<c, nm, LastDigits(nm).digits>> :
                           c \in Range(order), nm \in {n \in Corpus : HasDigit(n)}}
                       \cap {e \in Range(order) \X Corpus \X {LastDigits(n).digits : n \in {x \in Corpus : HasDigit(x)}} :
                                e[2] \in NamesOf(e[1]) /\ e[3] = LastDigits(e[2]).digits}
    /\ pc \in {"verify", "write", "done"} =>
          \A c \in Range(order) : \A nm \in {n \in NamesLeft(c) : HasDigit(n)} :
              (\E c2 \in Range(order) \ {c} :
                  \E n \in {x \in covered_by_unique[c2] : HasDigit(x)} :
                      /\ LastDigits(n).head = LastDigits(nm).head
                      /\ LastDigits(n).suffix = LastDigits(nm).suffix
                      /\ StartsWith(LastDigits(n).digits, LastDigits(nm).digits))
              => nm \notin covered_by_digits[c] /\ nm \in Range(leftovers_by_cat[c])

\* The index holds a name that stage 1 covered, and a stage-1 leftover of
\* another category shares its group.
C11_Witness ==
    /\ pc = "done"
    /\ \E e \in IdxEntries :
          /\ e[2] \in covered_by_unique[e[1]]
          /\ \E c \in Range(order) \ {e[1]} : \E nm \in {n \in NamesLeft(c) : HasDigit(n)} :
                /\ LastDigits(nm).head = LastDigits(e[2]).head
                /\ LastDigits(nm).suffix = LastDigits(e[2]).suffix

\* The names that belong to two different categories.
SharedNames ==
    {nm \in Corpus : \E c, c2 \in Range(order) : c # c2 /\ nm \in NamesOf(c) \cap NamesOf(c2)}

\* C12: a name that belongs to two different categories is matched by no
\* emitted pattern of any category and is written as a literal line in each
\* category that contains it.
C12_SharedNameLiteral ==
    pc = "done" =>
        \A nm \in SharedNames :
            /\ \A c \in Range(order) : \A p \in EmittedPatterns(c) : ~GlobMatch(nm, p)
            /\ \A c \in Range(order) : nm \in NamesOf(c) => nm \in EmittedLiterals(c)

\* The second half of C12 alone: the shared name is a literal line of each of
\* its categories.
C12_LiteralPart ==
    pc = "done" =>
        \A nm \in SharedNames :
            \A c \in Range(order) : nm \in NamesOf(c) => nm \in EmittedLiterals(c)

C12_Reached == pc = "done" /\ SharedNames # {}

IsCatLine(l) == l.kind = "cat"

\* The category ids of the header lines of a file, in file order.
HeaderIds(lines) ==
    LET hs == SelectSeq(lines, IsCatLine) IN [k \in DOMAIN hs |-> hs[k].cat]

\* A sequence without the later occurrences of its elements.
RECURSIVE FirstOccurrences(_, _)
FirstOccurrences(seq, seen) ==
    IF seq = <<>> THEN <<>>
    ELSE IF Head(seq) \in seen THEN FirstOccurrences(Tail(seq), seen)
    ELSE <<Head(seq)>> \o FirstOccurrences(Tail(seq), seen \cup {Head(seq)})

\* 1 for a hierarchical-prefix line (separator, then '*'), 2 for a numeric
\* pattern line, 3 for a literal line.
LineRank(p) ==
    IF ~IsPattern(p) THEN 3
    ELSE IF Len(p) >= 2 /\ p[Len(p)] = "*" /\ p[Len(p) - 1] \in SEPS THEN 1
    ELSE 2

PrefixPositions(c) == {k \in BlockPositions(c) : LineRank(out[k].name) = 1}

\* C14: within a category the kept hierarchical prefixes are written by
\* increasing length, and two of equal length in lexical order.
C14_PrefixOrder ==
    pc = "done" =>
        \A c \in Range(order) : \A j, k \in PrefixPositions(c) :
            j < k =>
                /\ Len(out[j].name) <= Len(out[k].name)
                /\ Len(out[j].name) = Len(out[k].name) => LexLess(out[j].name, out[k].name)

\* The first half of C14 alone: the prefixes are written by increasing length.
C14_ByLength ==
    pc = "done" =>
        \A c \in Range(order) : \A j, k \in PrefixPositions(c) :
            j < k => Len(out[j].name) <= Len(out[k].name)

\* A block with two hierarchical prefixes of one length.
C14_Reached ==
    /\ pc = "done"
    /\ \E c \in Range(order) : \E j, k \in PrefixPositions(c) :
          j < k /\ Len(out[j].name) = Len(out[k].name)

\* What main's first loop leaves for every category when it takes the
\* categories in first-seen order, from the index idx on.
RECURSIVE FirstSeenStageOne(_, _, _)
FirstSeenStageOne(ord, idx, acc) ==
    IF ord = <<>> THEN acc
    ELSE LET c == Head(ord)
             r == CHOOSE x \in compute_unique_prefixes_for_category(c, cats[c].names, idx) : TRUE
             looked == UNION {Looked(nm, c, idx) : nm \in Range(cats[c].names)}
         IN FirstSeenStageOne(Tail(ord), IndexAfterLookups(idx, c, looked),
                              [acc EXCEPT ![c] = r])

FirstSeenOne ==
    FirstSeenStageOne(order, build_sep_prefix_index(cats, order),
                      [c \in CatIds |-> [kept |-> {}, covered |-> {}]])

\* C15: with both indices built, the per-category stages run in any order
\* and interleaving leave the two indices as they were built and give every
\* category the kept prefixes, covered names, numeric patterns and leftovers
\* that processing the categories in first-seen order gives, and the output
\* then selects the same lines.
C15_OrderIndependent ==
    pc \in {"work", "verify", "done"} =>
        LET one == FirstSeenOne
            byCat == AllNamesByCat(cats, order)
            tidx == build_trailing_number_index(byCat)
            left == [c \in CatIds |-> byCat[c] \ one[c].covered]
            two == [c \in CatIds |-> make_digit_merges_for_category(c, left[c], tidx)]
        IN /\ pc \in {"work", "verify"} =>
                 /\ pref_to_cats = build_sep_prefix_index(cats, order)
                 /\ trailing_idx = tidx
                 /\ \A c \in Range(order) :
                       /\ progress[c] >= 1 =>
                             /\ unique_by_cat[c] = one[c].kept
                             /\ covered_by_unique[c] = one[c].covered
                       /\ progress[c] = 2 =>
                             /\ digit_patterns_by_cat[c] = two[c].patterns
                             /\ covered_by_digits[c] = two[c].covered
                             /\ leftovers_by_cat[c] = SortedLex(left[c] \ two[c].covered)
           /\ pc = "done" =>
                 \A c \in Range(order) :
                     EmittedNames(c) =
                         {k \o <<"*">> : k \in one[c].kept}
                         \cup SafePatterns(c, two[c].patterns, byCat)
                         \cup (left[c] \ two[c].covered)

\* The category seen second has finished both stages before the category
\* seen first has started, and the two share a hierarchy prefix and a
\* trailing-number group.
C15_Witness ==
    /\ pc = "work"
    /\ Len(order) = 2
    /\ progress[order[2]] = 2 /\ progress[order[1]] = 0
    /\ \E p \in DOMAIN pref_to_cats : Cardinality(pref_to_cats[p]) = 2
    /\ \E key \in DOMAIN trailing_idx : {e[1] : e \in trailing_idx[key]} = CatIds

\* The positions of the header lines of category c in the input.
HeadersOf(c) == {k \in DOMAIN input : input[k].kind = "cat" /\ input[k].cat = c}

\* The position of the header that a line at position k stands under, 0
\* when no header precedes it.
HeaderAbove(k) ==
    LET hs == {j \in 1..(k - 1) : input[j].kind = "cat"}
    IN IF hs = {} THEN 0 ELSE CHOOSE j \in hs : \A j2 \in hs : j2 <= j

\* The names of the selection lines among the first n input lines that stand
\* under a header of category c, first or repeated, in file order.
RECURSIVE NamesUnder(_, _)
NamesUnder(c, n) ==
    IF n = 0 THEN <<>>
    ELSE IF /\ input[n].kind = "sel"
            /\ HeaderAbove(n) # 0
            /\ input[HeaderAbove(n)].cat = c
         THEN Append(NamesUnder(c, n - 1), input[n].name)
         ELSE NamesUnder(c, n - 1)

FirstHeader(c) == CHOOSE k \in HeadersOf(c) : \A k2 \in HeadersOf(c) : k <= k2

Parsed == pc \notin {"start"}

\* C16: a category whose header comes again keeps the display attribute of
\* its first header and its first-seen place in the category order, and the
\* selection lines under the repeated header are added to that category; the
\* output carries the first attribute on the header and on every select line.
C16_RepeatedHeader ==
    /\ Parsed =>
          /\ order = FirstOccurrences(HeaderIds(input), {})
          /\ \A c \in Range(order) :
                /\ cats[c].highlight = input[FirstHeader(c)].color
                /\ cats[c].names = NamesUnder(c, Len(input))
    /\ pc = "done" =>
          \A c \in Range(order) :
              /\ out[HeaderPos(c)].color = input[FirstHeader(c)].color
              /\ BlockHighlight(c, input[FirstHeader(c)].color)

\* Category 12 has its header twice with different colors, another header
\* in between, and a selection line under each of its two headers.
C16_Witness ==
    /\ pc = "done"
    /\ \E j, k \in HeadersOf("12") :
          /\ j < k /\ input[j].color # input[k].color
          /\ \E m \in HeadersOf("7") : j < m /\ m < k
          /\ \E a, b \in DOMAIN input :
                /\ input[a].kind = "sel" /\ HeaderAbove(a) = j
                /\ input[b].kind = "sel" /\ HeaderAbove(b) = k

\* A line that matches neither the header nor the selection grammar.
IsOtherLine(l) == l.kind \in {"comment", "blank", "text"}

\* The output holds the text of the input line l on a line of its own (the
\* writer puts '# ' before every text it reproduces).
Reproduced(l) ==
    \E j \in DOMAIN out : out[j].kind = "comment" /\ out[j].text[2] = l.text

\* C17 as stated: no line that matches neither grammar is dropped; before
\* the first header or after a header, it is reproduced in the output.
C17_NeverDropped ==
    pc = "done" =>
        \A k \in DOMAIN input : IsOtherLine(input[k]) => Reproduced(input[k])

IsKeptLine(l) == l.kind \in {"comment", "blank"}

\* The texts of the comment and blank lines that stand before the first
\* header of the input, in file order.
LeadingTexts ==
    LET hs == {k \in DOMAIN input : input[k].kind = "cat"}
        n == IF hs = {} THEN Len(input)
             ELSE (CHOOSE k \in hs : \A k2 \in hs : k <= k2) - 1
        kept == SelectSeq(SubSeq(input, 1, n), IsKeptLine)
    IN [k \in DOMAIN kept |-> kept[k].text]

IsSelLine(l) == l.kind = "sel"

\* C17 as amended: of the lines that match neither grammar only the comment
\* and blank lines before the first header are kept; when a category is
\* parsed each of them is written as a comment line, '# ' followed by its
\* text, in file order between the three banner lines and the blank line
\* that precedes the first category.  Every other such line (other text
\* before the first header, any line after a header) is dropped: the output
\* holds nothing else than the banner, these comments, the blank line and the
\* category blocks.  With no header in the input nothing is written at all.
C17_LeadingCommentsOnly ==
    /\ pc \notin {"start"} => header_lines = LeadingTexts
    /\ pc = "exit" => out = <<>>
    /\ pc = "done" =>
          LET n == Len(LeadingTexts)
          IN /\ \A k \in 1..3 : out[k].kind = "banner"
             /\ \A k \in 1..n : out[3 + k] = [kind |-> "comment", text |-> <<"# ", LeadingTexts[k]>>]
             /\ out[3 + n + 1] = [kind |-> "blank", text |-> ""]
             /\ \A k \in (3 + n + 2)..Len(out) : out[k].kind \in {"cat", "sel"}
             /\ Len(SelectSeq(out, IsCatLine)) = Len(order)

\* A finished run on a file with a comment and other text before the header
\* and a comment and a blank line after it.
C17_Witness ==
    /\ pc = "done"
    /\ \E h \in DOMAIN input :
          /\ input[h].kind = "cat"
          /\ \E a, b \in 1..(h - 1) : input[a].kind = "comment" /\ input[b].kind = "text"
          /\ \E a, b \in (h + 1)..Len(input) : input[a].kind = "comment" /\ input[b].kind = "blank"

\* The number of selection lines of the input that the parser takes.
SelLinesIn ==
    Cardinality({k \in DOMAIN input : input[k].kind = "sel" /\ HeaderAbove(k) # 0})

\* The number of select lines of the output.
SelLinesOut == Len(SelectSeq(out, IsSelLine))

\* The names of category c that start with the kept prefix k.
PrefixCover(c, k) == {nm \in NamesOf(c) : StartsWith(nm, k)}

\* C18: the number of select lines written (kept prefixes, surviving numeric
\* patterns and leftovers of all categories) is at most the number of
\* selection lines parsed, and the summary line reports these two numbers;
\* the kept prefixes of a category cover non-empty, pairwise disjoint sets of
\* its names, and its numeric patterns disjoint groups of two names or more,
\* so that the names they cover are at least twice as many as the patterns.
C18_NeverLonger ==
    /\ pc = "done" =>
          /\ SelLinesOut <= SelLinesIn
          /\ console[Len(console)].total_in = SelLinesIn
          /\ console[Len(console)].total_out = SelLinesOut
    /\ pc \in {"verify", "write", "done"} =>
          \A c \in Range(order) :
              /\ \A k \in unique_by_cat[c] : PrefixCover(c, k) # {}
              /\ \A k, k2 \in unique_by_cat[c] :
                    k # k2 => PrefixCover(c, k) \cap PrefixCover(c, k2) = {}
              /\ 2 * Cardinality(digit_patterns_by_cat[c]) <= Cardinality(covered_by_digits[c])
              /\ covered_by_digits[c] \cap covered_by_unique[c] = {}
              /\ Range(leftovers_by_cat[c]) \cap (covered_by_digits[c] \cup covered_by_unique[c]) = {}

\* An output shorter than its input that holds a kept prefix and a numeric
\* pattern.
C18_Witness ==
    /\ pc = "done"
    /\ SelLinesOut < SelLinesIn
    /\ \E c \in Range(order) : digit_patterns_by_cat[c] # {}
    /\ \E c \in Range(order) : unique_by_cat[c] # {}

\* The separator-terminated prefixes of nm that no name of a category other
\* than c starts with.
OwnedPrefixes(nm, c) ==
    {p \in sep_prefixes(nm) :
        \A c2 \in Range(order) \ {c} : \A n \in NamesOf(c2) : ~StartsWith(n, p)}

\* The shortest of them, for a name that has one.
ShortestOwned(nm, c) ==
    CHOOSE p \in OwnedPrefixes(nm, c) : \A q \in OwnedPrefixes(nm, c) : Len(p) <= Len(q)

\* The first stage has run for category c.
StageOneDone(c) ==
    \/ pc \in {"stage2", "verify", "write", "done"}
    \/ pc = "stage1" /\ \E k \in 1..(i - 1) : k <= Len(order) /\ order[k] = c

\* C19: the subsumption filter of compute_unique_prefixes_for_category
\* removes nothing: the candidates, which are the shortest owned prefix of
\* every name that has an owned prefix, form an antichain under the prefix
\* relation and are the kept set, and the names stage 1 covers are exactly
\* the names with at least one separator-terminated prefix owned by their
\* category alone.
C19_FilterRemovesNothing ==
    \A c \in Range(order) :
        StageOneDone(c) =>
            LET cand == Candidates(c, cats[c].names, pref_to_cats)
            IN /\ cand = {ShortestOwned(nm, c) :
                            nm \in {n \in NamesOf(c) : OwnedPrefixes(n, c) # {}}}
               /\ \A p, q \in cand : p # q => ~StartsWith(p, q)
               /\ unique_by_cat[c] = cand
               /\ covered_by_unique[c] = {nm \in NamesOf(c) : OwnedPrefixes(nm, c) # {}}

\* After stage 1, a category has a name with two owned prefixes, one inside
\* the other, and a name with no owned prefix.
C19_Witness ==
    /\ pc = "stage2"
    /\ \E c \in Range(order) :
          /\ \E nm \in NamesOf(c) : Cardinality(OwnedPrefixes(nm, c)) >= 2
          /\ \E nm \in NamesOf(c) : OwnedPrefixes(nm, c) = {} /\ sep_prefixes(nm) # {}

==========================================================================
